---- MODULE Spec2Model ----
(***************************************************************************)
(* Model of the publish/subscribe engine created by pubsubFactory()        *)
(* (src/index.js): the subscription registry, the reverse indexes, the     *)
(* callable subscription tokens, the three unsubscribe modes,              *)
(* unsubscribeAll, isolated scopes and synchronous / deferred delivery.    *)
(*                                                                         *)
(* JavaScript values are records [type, fn, id, src]:                      *)
(*   undefined            type = "undefined"                               *)
(*   a client function    type = "function", fn = its name, id = 0         *)
(*   a subscribeOnce      type = "function", fn = the wrapped function,    *)
(*     wrapper              id = the token the wrapper unsubscribes        *)
(*   a subscription token type = "token", id = its number                  *)
(*   a string             type = "string", src = its characters            *)
(*   a RegExp             type = "regexp", src = its source                *)
(* Strings are sequences of one-character strings.                         *)
(***************************************************************************)
EXTENDS Integers, Sequences, FiniteSets, TLC

\* Number of subscribe / subscribeOnce calls that create a token.
MaxTokens == 3

\* Number of delivery functions that exist at a time, scheduled or running.
MaxPending == 2

\* Number of engine calls the callbacks of one delivery make.
MaxCallsInDelivery == 1

\* The longest literal specifier and topic of the programs that exercise the
\* topic matcher.
MaxLiteralLen == 2

----------------------------------------------------------------------------
(* JavaScript values *)

Undefined == [type |-> "undefined", fn |-> "", id |-> 0, src |-> <<>>]

Fn(name) == [type |-> "function", fn |-> name, id |-> 0, src |-> <<>>]

Tok(t) == [type |-> "token", fn |-> "", id |-> t, src |-> <<>>]

Str(s) == [type |-> "string", fn |-> "", id |-> 0, src |-> s]

Re(s) == [type |-> "regexp", fn |-> "", id |-> 0, src |-> s]

Null == [type |-> "null", fn |-> "", id |-> 0, src |-> <<>>]

\* The Symbol('Isolated') of the n-th isolate() call.
Sym(n) == [type |-> "symbol", fn |-> "", id |-> n, src |-> <<>>]

\* `!value`, for the values of the model.
Falsy(v) == v.type = "undefined" \/ (v.type = "string" /\ v.src = <<>>)

isString(str) == str.type = "string"

\* A subscription token is itself a function (index.js:182).
isFunction(fun) == fun.type \in {"function", "token"}

isRegExp(regexp) == regexp.type = "regexp"

\* A check that takes everything but undefined for a specifier.
isValidEventName_defined(eventName) == eventName.type # "undefined"

isValidEventName(eventName) == isString(eventName) \/ isRegExp(eventName)

----------------------------------------------------------------------------
(* Topic matcher *)

\* The characters of the class in escapeRegexpCharacters.
MetaCharacters ==
    {"-", "\\", "/", "^", "$", "+", "?", ".", "(", ")", "|", "[", "]", "{", "}", "*"}

\* An escape that leaves every character as it is.
escapeRegexpCharacters_none(eventName) == eventName

RECURSIVE escapeRegexpCharacters(_)
escapeRegexpCharacters(eventName) ==
    IF eventName = <<>> THEN <<>>
    ELSE (IF Head(eventName) \in MetaCharacters
          THEN <<"\\", Head(eventName)>>
          ELSE <<Head(eventName)>>) \o escapeRegexpCharacters(Tail(eventName))

\* RegExp.prototype.toString of a pattern without flags: "/" source "/".
createSubscriptionKey(eventName) ==
    IF isRegExp(eventName)
    THEN <<"/">> \o eventName.src \o <<"/">>
    ELSE escapeRegexpCharacters(eventName.src)

\* The source of the RegExp the subscription is matched with.
createSubscriptionPattern(eventName) ==
    IF isRegExp(eventName)
    THEN eventName.src
    ELSE <<"^">> \o escapeRegexpCharacters(eventName.src) \o <<"$">>

\* One atom of a pattern: an escaped character (two characters of the source)
\* or a single character.
AtomLen(re) == IF Head(re) = "\\" /\ Len(re) >= 2 THEN 2 ELSE 1

AtomMatches(re, c) ==
    IF Head(re) = "\\" /\ Len(re) >= 2 THEN c = re[2]
    ELSE IF Head(re) = "." THEN TRUE
    ELSE c = Head(re)

RECURSIVE MatchHere(_, _)
RECURSIVE MatchStar(_, _, _)

\* Does the pattern source `re` match a prefix of `text`?  Supports literal
\* characters, escaped characters, ".", a postfix "*" and "$".
MatchHere(re, text) ==
    IF re = <<>> THEN TRUE
    ELSE IF Head(re) = "$" THEN text = <<>> /\ MatchHere(Tail(re), text)
    ELSE LET n == AtomLen(re)
             rest == SubSeq(re, n + 1, Len(re))
         IN IF rest # <<>> /\ Head(rest) = "*"
            THEN MatchStar(SubSeq(re, 1, n), Tail(rest), text)
            ELSE /\ text # <<>>
                 /\ AtomMatches(re, Head(text))
                 /\ MatchHere(rest, Tail(text))

MatchStar(atom, rest, text) ==
    \/ MatchHere(rest, text)
    \/ /\ text # <<>>
       /\ AtomMatches(atom, Head(text))
       /\ MatchStar(atom, rest, Tail(text))

\* eventName.match(subscriptionPattern) is not null: the pattern matches
\* somewhere in the text, or at its start when the source begins with "^".
Match(text, re) ==
    IF re # <<>> /\ Head(re) = "^"
    THEN MatchHere(Tail(re), text)
    ELSE \E i \in 0..Len(text) : MatchHere(re, SubSeq(text, i + 1, Len(text)))

----------------------------------------------------------------------------
(* Map helpers: a Map is a function whose DOMAIN is its key set *)

EmptyMap == [x \in {} |-> x]

MapSet(map, key, value) ==
    [x \in (DOMAIN map) \cup {key} |-> IF x = key THEN value ELSE map[x]]

MapDelete(map, key) == [x \in (DOMAIN map) \ {key} |-> map[x]]

\* The elements of a set of token numbers in insertion order: a token is
\* inserted once, when it is created, and numbers grow with creation.
RECURSIVE values(_)
values(set) ==
    IF set = {} THEN <<>>
    ELSE LET m == CHOOSE x \in set : \A y \in set : x <= y
         IN <<m>> \o values(set \ {m})

RemoveAt(seq, i) == SubSeq(seq, 1, i - 1) \o SubSeq(seq, i + 1, Len(seq))

----------------------------------------------------------------------------
(* subscriptions: the main store, an insertion-ordered Map from key to     *)
(* [subscriptionPattern, callbacks], callbacks an insertion-ordered Map    *)
(* from token to callback.  Both are sequences, oldest first.              *)

subscriptions_has(store, subscriptionKey) ==
    \E i \in 1..Len(store) : store[i].key = subscriptionKey

IndexOfKey(store, subscriptionKey) ==
    CHOOSE i \in 1..Len(store) : store[i].key = subscriptionKey

subscriptions_get(store, subscriptionKey) ==
    store[IndexOfKey(store, subscriptionKey)]

\* A store whose entries map a callback to its token: a second subscription
\* of the same function under the key takes the place of the first.
subscriptions_add_perCallback(store, subscriptionKey, subscriptionPattern, subscriptionToken, callback) ==
    LET pair == [token |-> subscriptionToken, callback |-> callback]
    IN IF subscriptions_has(store, subscriptionKey)
       THEN LET i == IndexOfKey(store, subscriptionKey)
                old == store[i].callbacks
            IN IF \E j \in 1..Len(old) : old[j].callback = callback
               THEN [store EXCEPT ![i].callbacks =
                        [j \in 1..Len(old) |->
                            IF old[j].callback = callback THEN pair ELSE old[j]]]
               ELSE [store EXCEPT ![i].callbacks = Append(@, pair)]
       ELSE Append(store, [key |-> subscriptionKey,
                           subscriptionPattern |-> subscriptionPattern,
                           callbacks |-> <<pair>>])

subscriptions_add(store, subscriptionKey, subscriptionPattern, subscriptionToken, callback) ==
    LET pair == [token |-> subscriptionToken, callback |-> callback]
    IN IF subscriptions_has(store, subscriptionKey)
       THEN LET i == IndexOfKey(store, subscriptionKey)
            IN [store EXCEPT ![i].callbacks = Append(@, pair)]
       ELSE Append(store, [key |-> subscriptionKey,
                           subscriptionPattern |-> subscriptionPattern,
                           callbacks |-> <<pair>>])

\* A store whose delete removes the token and keeps the emptied entry.
subscriptions_delete_keepEmpty(store, subscriptionKey, subscriptionToken) ==
    IF subscriptions_has(store, subscriptionKey)
    THEN LET i == IndexOfKey(store, subscriptionKey)
         IN [store EXCEPT ![i].callbacks =
                SelectSeq(@, LAMBDA p : p.token # subscriptionToken)]
    ELSE store

\* A store whose delete drops the whole entry of the key.
subscriptions_delete_entry(store, subscriptionKey, subscriptionToken) ==
    SelectSeq(store, LAMBDA entry : entry.key # subscriptionKey)

subscriptions_delete(store, subscriptionKey, subscriptionToken) ==
    IF subscriptions_has(store, subscriptionKey)
    THEN LET i == IndexOfKey(store, subscriptionKey)
             callbacks == SelectSeq(store[i].callbacks,
                                    LAMBDA p : p.token # subscriptionToken)
         IN IF callbacks = <<>>
            THEN RemoveAt(store, i)
            ELSE [store EXCEPT ![i].callbacks = callbacks]
    ELSE store

subscriptions_size(store) == Len(store)

----------------------------------------------------------------------------
(* callbackSubscriptionTokens: Map<Callback, Map<SubscriptionKey, Set<Token>>> *)

callbackSubscriptionTokens_add(store, callback, subscriptionKey, subscriptionToken) ==
    LET callbackSubscriptions ==
            IF callback \in DOMAIN store THEN store[callback] ELSE EmptyMap
        callbackTokens ==
            IF subscriptionKey \in DOMAIN callbackSubscriptions
            THEN callbackSubscriptions[subscriptionKey] ELSE {}
    IN MapSet(store, callback,
              MapSet(callbackSubscriptions, subscriptionKey,
                     callbackTokens \cup {subscriptionToken}))

\* An index whose delete drops every token the callback has under the key.
callbackSubscriptionTokens_delete_key(store, callback, subscriptionKey, subscriptionToken) ==
    IF callback \in DOMAIN store
    THEN LET pruned == MapDelete(store[callback], subscriptionKey)
         IN IF DOMAIN pruned = {}
            THEN MapDelete(store, callback)
            ELSE MapSet(store, callback, pruned)
    ELSE store

\* An index whose delete removes the token and keeps the emptied Set and Map.
callbackSubscriptionTokens_delete_keepEmpty(store, callback, subscriptionKey, subscriptionToken) ==
    IF callback \in DOMAIN store /\ subscriptionKey \in DOMAIN store[callback]
    THEN MapSet(store, callback,
                MapSet(store[callback], subscriptionKey,
                       store[callback][subscriptionKey] \ {subscriptionToken}))
    ELSE store

callbackSubscriptionTokens_delete(store, callback, subscriptionKey, subscriptionToken) ==
    IF callback \in DOMAIN store
    THEN LET callbackSubscriptions == store[callback]
             pruned ==
                 IF subscriptionKey \in DOMAIN callbackSubscriptions
                 THEN LET callbackTokens ==
                              callbackSubscriptions[subscriptionKey] \ {subscriptionToken}
                      IN IF callbackTokens = {}
                         THEN MapDelete(callbackSubscriptions, subscriptionKey)
                         ELSE MapSet(callbackSubscriptions, subscriptionKey, callbackTokens)
                 ELSE callbackSubscriptions
         IN IF DOMAIN pruned = {}
            THEN MapDelete(store, callback)
            ELSE MapSet(store, callback, pruned)
    ELSE store

callbackSubscriptionTokens_has(store, callback) == callback \in DOMAIN store

----------------------------------------------------------------------------
(* scopeSubscriptionTokens: Map<Scope, Set<Token>> *)

scopeSubscriptionTokens_add(store, scope, subscriptionToken) ==
    MapSet(store, scope,
           (IF scope \in DOMAIN store THEN store[scope] ELSE {}) \cup {subscriptionToken})

\* The keys store.delete(tokens) removes: `tokens` is the Set object stored
\* under `scope`, and no key of the store is that object (index.js:169).
KeysDeletedWithTokenSet(store, scope) == {s \in DOMAIN store : FALSE}

\* A scope index whose delete does nothing.
scopeSubscriptionTokens_delete_none(store, scope, subscriptionToken) == store

scopeSubscriptionTokens_delete(store, scope, subscriptionToken) ==
    IF scope \in DOMAIN store
    THEN LET tokens == store[scope] \ {subscriptionToken}
             updated == MapSet(store, scope, tokens)
         IN IF tokens = {}
            THEN [s \in (DOMAIN updated) \ KeysDeletedWithTokenSet(updated, scope)
                    |-> updated[s]]
            ELSE updated
    ELSE store

----------------------------------------------------------------------------
(* State *)

VARIABLES
    subscriptions,              \* the main store
    subscriptionTokens,         \* Set of all live tokens
    callbackSubscriptionTokens, \* callback -> key -> tokens
    scopeSubscriptionTokens,    \* scope -> tokens
    tokens,                     \* tokens[t]: what the closure of token t captured
    timers,                     \* delivery functions handed to setTimeout, oldest first
    stack,                      \* delivery functions being run, innermost last
    calls,                      \* calls[t]: times the function given to subscribeOnce
                                \*   for token t was invoked (0 for other tokens)
    program                     \* the vocabulary of the client program of this run

vars == <<subscriptions, subscriptionTokens, callbackSubscriptionTokens,
          scopeSubscriptionTokens, tokens, timers, stack, calls, program>>

\* The four structures of the engine as one value.
Engine ==
    [subscriptions |-> subscriptions,
     subscriptionTokens |-> subscriptionTokens,
     callbackSubscriptionTokens |-> callbackSubscriptionTokens,
     scopeSubscriptionTokens |-> scopeSubscriptionTokens]

Bool(b) == IF b THEN "true" ELSE "false"

----------------------------------------------------------------------------
(* Subscription tokens *)

\* What createSubscriptionToken binds in the closure of the new token.
\* eventName is not captured by the source's closure: it records the
\* specifier the subscription was made with.
createSubscriptionToken(scope, subscriptionKey, callback, eventName) ==
    [scope |-> scope, subscriptionKey |-> subscriptionKey, callback |-> callback,
     eventName |-> eventName]

\* The token function with closure c, for token number t, run on engine E.
tokenFunction(E, t, c) ==
    IF ~subscriptions_has(E.subscriptions, c.subscriptionKey)
    THEN [engine |-> E, value |-> FALSE]
    ELSE [engine |->
             [subscriptions |->
                 subscriptions_delete(E.subscriptions, c.subscriptionKey, t),
              subscriptionTokens |-> E.subscriptionTokens \ {t},
              callbackSubscriptionTokens |->
                 callbackSubscriptionTokens_delete(E.callbackSubscriptionTokens,
                                                   c.callback, c.subscriptionKey, t),
              scopeSubscriptionTokens |->
                 scopeSubscriptionTokens_delete(E.scopeSubscriptionTokens, c.scope, t)],
          value |-> TRUE]

\* token(): token number t invoked on engine E.
token(E, t) == tokenFunction(E, t, tokens[t])

\* A reduce that stops after the first token.
reduce_first(E, currentTokens, acc) ==
    IF currentTokens = <<>> THEN [engine |-> E, value |-> Bool(acc)]
    ELSE LET r == token(E, Head(currentTokens))
         IN [engine |-> r.engine, value |-> Bool(r.value \/ acc)]

\* currentTokens.reduce((result, token) => token() || result, false)
RECURSIVE reduce(_, _, _)
reduce(E, currentTokens, acc) ==
    IF currentTokens = <<>> THEN [engine |-> E, value |-> Bool(acc)]
    ELSE LET r == token(E, Head(currentTokens))
         IN reduce(r.engine, Tail(currentTokens), r.value \/ acc)

----------------------------------------------------------------------------
(* Dispatch *)

\* A lookup that takes the callbacks of every entry, matching or not.
getCallbacksForEventName_every(store, eventName) ==
    LET RECURSIVE collect(_)
        collect(i) ==
            IF i > Len(store) THEN <<>>
            ELSE store[i].callbacks \o collect(i + 1)
    IN collect(1)

\* A lookup that returns the matching callbacks in the order they were
\* subscribed in, whatever entry holds them.
getCallbacksForEventName_subscribeOrder(store, eventName) ==
    LET matching ==
            UNION {{store[i].callbacks[j] : j \in 1..Len(store[i].callbacks)} :
                      i \in {k \in 1..Len(store) :
                                Match(eventName.src, store[k].subscriptionPattern)}}
        RECURSIVE sorted(_)
        sorted(pairs) ==
            IF pairs = {} THEN <<>>
            ELSE LET first == CHOOSE p \in pairs : \A q \in pairs : p.token <= q.token
                 IN <<first>> \o sorted(pairs \ {first})
    IN sorted(matching)

\* The [token, callback] pairs of every entry whose pattern matches, in store
\* order; the delivery uses the callbacks, the tokens say whose they are.
getCallbacksForEventName(store, eventName) ==
    LET RECURSIVE collect(_)
        collect(i) ==
            IF i > Len(store) THEN <<>>
            ELSE (IF Match(eventName.src, store[i].subscriptionPattern)
                  THEN store[i].callbacks ELSE <<>>) \o collect(i + 1)
    IN collect(1)

\* The delivery function of one publish call: the captured callbacks, the
\* arguments, and how far callbacks.forEach has come.
\*   id       a number no other delivery function has while this one exists
\*   via      the scope of the API object publish was called on
\*   idx      the callback that runs next (or is running)
\*   running  TRUE while callbacks[idx] is executing
\*   made     engine calls the callbacks of this delivery have made
\*   threw    some callback of this delivery threw
\*   log      the client functions invoked so far, with their arguments
\*   live     the subscriptions that were live and matched when publish was called
createDeliveryFunction(callbacks, eventName, data, sync, id, via, live) ==
    [id |-> id, via |-> via, callbacks |-> callbacks, eventName |-> eventName, data |-> data,
     sync |-> sync, idx |-> 1, running |-> FALSE, made |-> 0, threw |-> FALSE,
     log |-> <<>>, live |-> live]

\* The callbacks of a store that belong to the root API or to scope `scope`.
publishedBy_scoped(scope, store, eventName) ==
    SelectSeq(getCallbacksForEventName(store, eventName),
              LAMBDA pair : tokens[pair.token].scope \in {Undefined, scope})

\* The callbacks captured by the publish member of the API object of scope
\* `scope`: the root API and every isolated one hold the same publish
\* function, to which no scope is passed (index.js:368, 378).
publishedBy(scope, store, eventName) ==
    getCallbacksForEventName(store, eventName)

\* A publish that returns true whether or not it found callbacks.
publish_true(store, eventName, data, sync) == "true"

\* What publish(eventName, data, sync) returns on store `store`.
publish(store, eventName, data, sync) ==
    Bool(Len(getCallbacksForEventName(store, eventName)) # 0)

\* A publish that runs every delivery function at once.
startOf_call(sync) == "call"

\* How publish starts the delivery function: `deliveryFunction()` or
\* `setTimeout(deliveryFunction, 0)` (index.js:226-230).
startOf(sync) == IF sync THEN "call" ELSE "setTimeout"

\* A hasSubscribers that looks at the size of the registry only.
hasSubscribers_size(E, eventName) == Bool(subscriptions_size(E.subscriptions) # 0)

\* A hasSubscribers that tests `subscriptions.size`, the method, in place of
\* the number it returns: a function is truthy.
hasSubscribers_method(E, eventName) ==
    IF eventName.type # "undefined"
    THEN Bool(Len(getCallbacksForEventName(E.subscriptions, eventName)) # 0)
    ELSE "true"

hasSubscribers(E, eventName) ==
    IF eventName.type # "undefined"
    THEN Bool(Len(getCallbacksForEventName(E.subscriptions, eventName)) # 0)
    ELSE Bool(subscriptions_size(E.subscriptions) # 0)

----------------------------------------------------------------------------
(* unsubscribe, unsubscribeAll *)

\* A walk over the callback's keys that stops after the first key.
callbackTokensOf_first(callbackSubscriptions, ks) ==
    IF ks = {} THEN {}
    ELSE callbackSubscriptions[CHOOSE x \in ks : TRUE]

\* The tokens of a callback's Map<key, Set<token>>.  The source walks the keys
\* in insertion order; the tokens are distinct and live, so the order in which
\* they are invoked changes neither the engine nor the result.
RECURSIVE callbackTokensOf(_, _)
callbackTokensOf(callbackSubscriptions, ks) ==
    IF ks = {} THEN {}
    ELSE LET k == CHOOSE x \in ks : TRUE
         IN callbackSubscriptions[k] \cup callbackTokensOf(callbackSubscriptions, ks \ {k})

\* An unsubscribe that, given a specifier and a callback, takes the tokens the
\* callback has under every key.
unsubscribe_everyKey(E, eventName, callback) ==
    LET cst == E.callbackSubscriptionTokens
        currentTokens ==
            IF isFunction(eventName)
            THEN IF eventName.type = "token" /\ eventName.id \in E.subscriptionTokens
                 THEN <<eventName.id>>
                 ELSE IF callbackSubscriptionTokens_has(cst, eventName)
                 THEN values(callbackTokensOf(cst[eventName], DOMAIN cst[eventName]))
                 ELSE <<>>
            ELSE IF isValidEventName(eventName) /\ callbackSubscriptionTokens_has(cst, callback)
            THEN values(callbackTokensOf(cst[callback], DOMAIN cst[callback]))
            ELSE <<>>
    IN reduce(E, currentTokens, FALSE)

\* An unsubscribe that invokes any token it is given, live or not.
unsubscribe_anyToken(E, eventName, callback) ==
    LET cst == E.callbackSubscriptionTokens
        currentTokens ==
            IF isFunction(eventName)
            THEN IF eventName.type = "token"
                 THEN <<eventName.id>>
                 ELSE IF callbackSubscriptionTokens_has(cst, eventName)
                 THEN values(callbackTokensOf(cst[eventName], DOMAIN cst[eventName]))
                 ELSE <<>>
            ELSE IF isValidEventName(eventName) /\ callbackSubscriptionTokens_has(cst, callback)
            THEN LET subscriptionKey == createSubscriptionKey(eventName)
                     callbackSubscriptions == cst[callback]
                 IN IF subscriptionKey \in DOMAIN callbackSubscriptions
                    THEN values(callbackSubscriptions[subscriptionKey])
                    ELSE <<>>
            ELSE <<>>
    IN reduce(E, currentTokens, FALSE)

unsubscribe(E, eventName, callback) ==
    LET cst == E.callbackSubscriptionTokens
        currentTokens ==
            IF isFunction(eventName)
            THEN IF eventName.type = "token" /\ eventName.id \in E.subscriptionTokens
                 THEN <<eventName.id>>
                 ELSE IF callbackSubscriptionTokens_has(cst, eventName)
                 THEN values(callbackTokensOf(cst[eventName], DOMAIN cst[eventName]))
                 ELSE <<>>
            ELSE IF isValidEventName(eventName) /\ callbackSubscriptionTokens_has(cst, callback)
            THEN LET subscriptionKey == createSubscriptionKey(eventName)
                     callbackSubscriptions == cst[callback]
                 IN IF subscriptionKey \in DOMAIN callbackSubscriptions
                    THEN values(callbackSubscriptions[subscriptionKey])
                    ELSE <<>>
            ELSE <<>>
    IN reduce(E, currentTokens, FALSE)

\* The tokens (keys) of an entry's callbacks Map, in insertion order.
keys(callbacks) == [i \in 1..Len(callbacks) |-> callbacks[i].token]

\* An unsubscribeAll whose call without a topic removes the subscriptions of
\* every scope.
unsubscribeAll_everyScope(E, scope, eventName) ==
    LET sst == E.scopeSubscriptionTokens
    IN IF Falsy(eventName)
       THEN reduce(E, values(E.subscriptionTokens), FALSE)
       ELSE LET subscriptionKey == createSubscriptionKey(eventName)
            IN IF subscriptions_has(E.subscriptions, subscriptionKey)
               THEN LET all == keys(subscriptions_get(E.subscriptions,
                                                      subscriptionKey).callbacks)
                        currentTokens ==
                            IF ~Falsy(scope)
                            THEN IF scope \in DOMAIN sst
                                 THEN SelectSeq(all, LAMBDA t : t \in sst[scope])
                                 ELSE <<>>
                            ELSE all
                    IN reduce(E, currentTokens, FALSE)
               ELSE reduce(E, <<>>, FALSE)

\* A scope is undefined (the root API) or a Symbol; `scope ? a : b` takes b
\* only for undefined.  scopeSubscriptionTokens.get(scope).values() throws a
\* TypeError when the scope has no entry.
unsubscribeAll(E, scope, eventName) ==
    LET sst == E.scopeSubscriptionTokens
    IN IF Falsy(eventName)
       THEN IF ~Falsy(scope)
            THEN IF scope \in DOMAIN sst
                 THEN reduce(E, values(sst[scope]), FALSE)
                 ELSE [engine |-> E, value |-> "TypeError"]
            ELSE reduce(E, values(E.subscriptionTokens), FALSE)
       ELSE LET subscriptionKey == createSubscriptionKey(eventName)
            IN IF subscriptions_has(E.subscriptions, subscriptionKey)
               THEN LET all == keys(subscriptions_get(E.subscriptions,
                                                      subscriptionKey).callbacks)
                        currentTokens ==
                            IF ~Falsy(scope)
                            THEN IF scope \in DOMAIN sst
                                 THEN SelectSeq(all, LAMBDA t : t \in sst[scope])
                                 ELSE <<>>
                            ELSE all
                    IN reduce(E, currentTokens, FALSE)
               ELSE reduce(E, <<>>, FALSE)

----------------------------------------------------------------------------
(* subscribe, subscribeOnce *)

\* subscribe(scope, eventName, callback) on engine E, t the number of the
\* token it would create: the engine afterwards and the value returned.
subscribe(E, scope, eventName, callback, t) ==
    IF ~isFunction(callback) \/ ~isValidEventName(eventName)
    THEN [engine |-> E, value |-> Null]
    ELSE LET subscriptionKey == createSubscriptionKey(eventName)
             subscriptionPattern == createSubscriptionPattern(eventName)
         IN [engine |->
                [subscriptions |->
                    subscriptions_add(E.subscriptions, subscriptionKey,
                                      subscriptionPattern, t, callback),
                 subscriptionTokens |-> E.subscriptionTokens \cup {t},
                 callbackSubscriptionTokens |->
                    callbackSubscriptionTokens_add(E.callbackSubscriptionTokens,
                                                   callback, subscriptionKey, t),
                 scopeSubscriptionTokens |->
                    scopeSubscriptionTokens_add(E.scopeSubscriptionTokens, scope, t)],
             value |-> Tok(t)]

\* A subscribeOnce that registers `callback` itself.
onceWrapper_same(callback, t) == callback

\* The function subscribeOnce registers in place of `callback`: it
\* unsubscribes token t, then calls `callback`.
onceWrapper(callback, t) == [callback EXCEPT !.id = t]

\* A wrapper that calls the wrapped function without unsubscribing.
callCallback_keep(E, callback) == E

\* The engine after the delivery function called `callback`: the wrapper of
\* subscribeOnce runs unsubscribe(subscriptionToken) before it calls the
\* function it wraps (index.js:353-356); a client function is client code.
callCallback(E, callback) ==
    IF callback.id # 0
    THEN unsubscribe(E, Tok(callback.id), Undefined).engine
    ELSE E

subscribeOnce(E, scope, eventName, callback, t) ==
    IF ~isFunction(callback)
    THEN [engine |-> E, value |-> Null]
    ELSE subscribe(E, scope, eventName, onceWrapper(callback, t), t)

----------------------------------------------------------------------------
(* The clients: what they call the engine with *)

\* undefined is the scope of the root API; every isolate() makes a Symbol.
Scopes == {Undefined, Sym(1), Sym(2)}

Callbacks == {Fn("c1"), Fn("c2")}

\* The empty topic, a literal topic, and a pattern that matches every
\* non-empty topic.
EventNames == {Str(<<>>), Str(<<"a">>), Re(<<".">>)}

\* The topics that are published.
Topics == {Str(<<>>), Str(<<"a">>)}

Payloads == {"d1", "d2"}

\* A run is the run of one client program; a program uses part of the
\* vocabulary above.
Program(scopes, eventNames, callbacks, once, topics, payloads, sync) ==
    [scopes |-> scopes, eventNames |-> eventNames, callbacks |-> callbacks,
     once |-> once, topics |-> topics, payloads |-> payloads, sync |-> sync]

\* subscribe and subscribeOnce of one function to one topic, published
\* synchronously and asynchronously.
OnceProgram ==
    Program({Undefined}, {Str(<<"a">>)}, {Fn("c1")}, BOOLEAN,
            {Str(<<"a">>)}, {"d1"}, BOOLEAN)

\* A literal topic and a pattern on the root API, published synchronously:
\* "a" matches both, "." the pattern alone.
TopicsProgram ==
    Program({Undefined}, {Str(<<"a">>), Re(<<".">>)}, {Fn("c1")}, {FALSE},
            {Str(<<"a">>), Str(<<".">>)}, Payloads, {TRUE})

\* The isolate example of the README: the root API and two isolated scopes
\* subscribe to 'test' and publish it.
IsolateProgram ==
    Program(Scopes, {Str(<<"t", "e", "s", "t">>)}, {Fn("c1")}, {FALSE},
            {Str(<<"t", "e", "s", "t">>)}, {"d1"}, {TRUE})

\* The programs that publish.
Programs == {OnceProgram, TopicsProgram}

\* The root API and two isolated scopes sharing a topic and a pattern.
ScopedProgram ==
    Program(Scopes, {Str(<<"a">>), Re(<<".">>)}, {Fn("c1")}, {FALSE},
            {Str(<<"a">>)}, {"d1"}, {TRUE})

\* Two functions, subscribed with subscribe and subscribeOnce to a topic and a
\* pattern on the root API.
CallbacksProgram ==
    Program({Undefined}, {Str(<<"a">>), Re(<<".">>)}, Callbacks, BOOLEAN,
            {Str(<<"a">>)}, {"d1"}, {TRUE})

\* The empty topic next to a literal topic, on the root API and one scope.
EmptyTopicProgram ==
    Program({Undefined, Sym(1)}, {Str(<<>>), Str(<<"a">>)}, {Fn("c1")}, {FALSE},
            Topics, {"d1"}, {TRUE})

\* The programs that subscribe and unsubscribe and never publish.
RegistryPrograms == {ScopedProgram, CallbacksProgram, EmptyTopicProgram}

----------------------------------------------------------------------------
(* Actions *)

Start(programs) ==
    /\ program \in programs
    /\ subscriptions = <<>>
    /\ subscriptionTokens = {}
    /\ callbackSubscriptionTokens = EmptyMap
    /\ scopeSubscriptionTokens = EmptyMap
    /\ tokens = <<>>
    /\ timers = <<>>
    /\ stack = <<>>
    /\ calls = <<>>

Init == Start(Programs)

InitRegistry == Start(RegistryPrograms)

Top == stack[Len(stack)]

\* Client code runs at top level or inside the callback that is executing.
CanCall ==
    IF stack = <<>> THEN TRUE
    ELSE Top.running /\ Top.made < MaxCallsInDelivery

\* The stack after the client code made one engine call.
called ==
    IF stack = <<>> THEN stack
    ELSE [stack EXCEPT ![Len(stack)] = [@ EXCEPT !.made = @ + 1]]

SetEngine(E) ==
    /\ subscriptions' = E.subscriptions
    /\ subscriptionTokens' = E.subscriptionTokens
    /\ callbackSubscriptionTokens' = E.callbackSubscriptionTokens
    /\ scopeSubscriptionTokens' = E.scopeSubscriptionTokens

EngineUnchanged ==
    UNCHANGED <<subscriptions, subscriptionTokens, callbackSubscriptionTokens,
                scopeSubscriptionTokens>>

\* subscribe(eventName, callback) of the root API or of an isolated facade,
\* index.js:236-252
Subscribe(scope, eventName, callback) ==
    /\ CanCall
    /\ LET t == Len(tokens) + 1
           r == subscribe(Engine, scope, eventName, callback, t)
       IN /\ SetEngine(r.engine)
          /\ IF r.value = Null
             THEN UNCHANGED <<tokens, calls>>
             ELSE /\ t <= MaxTokens
                  /\ tokens' = Append(tokens,
                        createSubscriptionToken(scope, createSubscriptionKey(eventName),
                                                callback, eventName))
                  /\ calls' = Append(calls, 0)
    /\ stack' = called
    /\ UNCHANGED <<timers, program>>

\* subscribeOnce(eventName, callback), index.js:350-359
SubscribeOnce(scope, eventName, callback) ==
    /\ CanCall
    /\ LET t == Len(tokens) + 1
           r == subscribeOnce(Engine, scope, eventName, callback, t)
       IN /\ SetEngine(r.engine)
          /\ IF r.value = Null
             THEN UNCHANGED <<tokens, calls>>
             ELSE /\ t <= MaxTokens
                  /\ tokens' = Append(tokens,
                        createSubscriptionToken(scope, createSubscriptionKey(eventName),
                                                onceWrapper(callback, t), eventName))
                  /\ calls' = Append(calls, 0)
    /\ stack' = called
    /\ UNCHANGED <<timers, program>>

\* A client invokes token t directly: token(), index.js:182-194
InvokeToken(t) ==
    /\ CanCall
    /\ SetEngine(token(Engine, t).engine)
    /\ stack' = called
    /\ UNCHANGED <<tokens, timers, calls, program>>

\* unsubscribe(eventName, callback), index.js:270-306
Unsubscribe(eventName, callback) ==
    /\ CanCall
    /\ SetEngine(unsubscribe(Engine, eventName, callback).engine)
    /\ stack' = called
    /\ UNCHANGED <<tokens, timers, calls, program>>

\* unsubscribeAll(eventName) of the root API (scope undefined) or of an
\* isolated facade, index.js:310-348.  A TypeError it throws inside a
\* callback ends at the latest in the delivery function's catch.
UnsubscribeAll(scope, eventName) ==
    /\ CanCall
    /\ SetEngine(unsubscribeAll(Engine, scope, eventName).engine)
    /\ stack' = called
    /\ UNCHANGED <<tokens, timers, calls, program>>

\* hasSubscribers(eventName), index.js:257-263
HasSubscribers(eventName) ==
    /\ CanCall
    /\ hasSubscribers(Engine, eventName) \in {"true", "false"}
    /\ stack' = called
    /\ EngineUnchanged
    /\ UNCHANGED <<tokens, timers, calls, program>>

\* The subscriptions that are live and whose specifier matches the topic.
LiveMatching(eventName) ==
    {t \in subscriptionTokens :
        Match(eventName.src, createSubscriptionPattern(tokens[t].eventName))}

\* The smallest number no existing delivery function has.
FreeId ==
    LET used == {timers[i].id : i \in 1..Len(timers)} \cup {stack[i].id : i \in 1..Len(stack)}
    IN CHOOSE i \in 1..(MaxPending + 1) : i \notin used /\ \A j \in 1..(i - 1) : j \in used

\* publish(eventName, data, sync), index.js:219-233.  A synchronous publish
\* that found callbacks runs its delivery function and returns in Finish.
Publish(scope, eventName, data, sync) ==
    /\ CanCall
    /\ IF publish(subscriptions, eventName, data, sync) = "false"
       THEN /\ stack' = called
            /\ timers' = timers
       ELSE /\ Len(timers) + Len(stack) < MaxPending
            /\ LET deliveryFunction ==
                       createDeliveryFunction(
                           publishedBy(scope, subscriptions, eventName),
                           eventName, data, sync, FreeId, scope, LiveMatching(eventName))
               IN IF startOf(sync) = "call"
                  THEN /\ stack' = Append(called, deliveryFunction)
                       /\ timers' = timers
                  ELSE /\ timers' = Append(timers, deliveryFunction)
                       /\ stack' = called
    /\ EngineUnchanged
    /\ UNCHANGED <<tokens, calls, program>>

\* The host runs the oldest setTimeout(deliveryFunction, 0) task; it does so
\* only when no code is running.
RunTimer ==
    /\ stack = <<>>
    /\ timers # <<>>
    /\ stack' = <<Head(timers)>>
    /\ timers' = Tail(timers)
    /\ EngineUnchanged
    /\ UNCHANGED <<tokens, calls, program>>

\* A delivery that skips the callbacks whose subscription is no longer live.
invoked_live(pair) ==
    [stack EXCEPT ![Len(stack)] =
        [@ EXCEPT !.running = TRUE,
                  !.log = IF pair.token \in subscriptionTokens
                          THEN Append(@, [token |-> pair.token, fn |-> pair.callback.fn,
                                          eventName |-> stack[Len(stack)].eventName,
                                          data |-> stack[Len(stack)].data,
                                          wasLive |-> TRUE])
                          ELSE @]]

\* The stack after the running delivery function called `pair.callback`: a
\* subscribeOnce wrapper passes its arguments on to the wrapped function.
invoked(pair) ==
    [stack EXCEPT ![Len(stack)] =
        [@ EXCEPT !.running = TRUE,
                  !.log = Append(@, [token |-> pair.token, fn |-> pair.callback.fn,
                                     eventName |-> Top.eventName, data |-> Top.data,
                                     wasLive |-> pair.token \in subscriptionTokens])]]

\* callbacks.forEach calls the next callback (index.js:212-214).  A
\* subscribeOnce wrapper first calls unsubscribe(subscriptionToken)
\* (index.js:353-356).
Invoke ==
    /\ stack # <<>>
    /\ ~Top.running
    /\ Top.idx <= Len(Top.callbacks)
    /\ LET pair == Top.callbacks[Top.idx]
       IN /\ SetEngine(callCallback(Engine, pair.callback))
          /\ calls' = IF pair.callback.id # 0
                      THEN [calls EXCEPT ![pair.callback.id] = @ + 1]
                      ELSE calls
          /\ stack' = invoked(pair)
    /\ UNCHANGED <<tokens, timers, program>>

\* A forEach that a throwing callback ends.
ended_abort(threw) ==
    [stack EXCEPT ![Len(stack)] =
        [@ EXCEPT !.running = FALSE,
                  !.idx = IF threw THEN Len(stack[Len(stack)].callbacks) + 1 ELSE @ + 1,
                  !.threw = @ \/ threw]]

\* The stack after the executing callback ended, by returning or by throwing:
\* forEach goes on to the next callback (index.js:213-215).
ended(threw) ==
    [stack EXCEPT ![Len(stack)] =
        [@ EXCEPT !.running = FALSE, !.idx = @ + 1, !.threw = @ \/ threw]]

\* The executing callback returns.
Return ==
    /\ stack # <<>>
    /\ Top.running
    /\ stack' = ended(FALSE)
    /\ EngineUnchanged
    /\ UNCHANGED <<tokens, timers, calls, program>>

\* The executing callback throws; the delivery function catches it.
Throw ==
    /\ stack # <<>>
    /\ Top.running
    /\ stack' = ended(TRUE)
    /\ EngineUnchanged
    /\ UNCHANGED <<tokens, timers, calls, program>>

\* forEach is done: the delivery function returns, and with it a synchronous
\* publish, which returns true.
Finish ==
    /\ stack # <<>>
    /\ ~Top.running
    /\ Top.idx > Len(Top.callbacks)
    /\ stack' = SubSeq(stack, 1, Len(stack) - 1)
    /\ EngineUnchanged
    /\ UNCHANGED <<tokens, timers, calls, program>>

\* What a program passes to unsubscribe: a token, a function or nothing, or a
\* specifier with a function or nothing.
UnsubscribeArguments ==
    (({Tok(t) : t \in 1..Len(tokens)} \cup program.callbacks \cup {Undefined})
        \X {Undefined})
    \cup (program.eventNames \X (program.callbacks \cup {Undefined}))

CallSubscribe ==
    \E scope \in program.scopes, eventName \in program.eventNames \cup {Undefined},
       callback \in program.callbacks \cup {Undefined} :
        /\ FALSE \in program.once
        /\ Subscribe(scope, eventName, callback)

CallSubscribeOnce ==
    \E scope \in program.scopes, eventName \in program.eventNames \cup {Undefined},
       callback \in program.callbacks \cup {Undefined} :
        /\ TRUE \in program.once
        /\ SubscribeOnce(scope, eventName, callback)

CallToken == \E t \in 1..Len(tokens) : InvokeToken(t)

CallUnsubscribe == \E a \in UnsubscribeArguments : Unsubscribe(a[1], a[2])

CallUnsubscribeAll ==
    \E scope \in Scopes, eventName \in program.eventNames \cup {Undefined} :
        UnsubscribeAll(scope, eventName)

CallHasSubscribers ==
    \E eventName \in program.topics \cup {Undefined} : HasSubscribers(eventName)

CallPublish ==
    \E scope \in program.scopes, eventName \in program.topics,
       data \in program.payloads, sync \in program.sync :
        Publish(scope, eventName, data, sync)

Next ==
    \/ CallSubscribe
    \/ CallSubscribeOnce
    \/ CallToken
    \/ CallUnsubscribe
    \/ CallUnsubscribeAll
    \/ CallHasSubscribers
    \/ CallPublish
    \/ RunTimer
    \/ Invoke
    \/ Return
    \/ Throw
    \/ Finish

\* Every operation of the engine, with deliveries.
Spec == Init /\ [][Next]_vars

\* The host runs every task given to setTimeout once the running code has
\* ended, forEach goes on, and every callback returns or throws.
Fairness ==
    /\ SF_vars(RunTimer)
    /\ WF_vars(Invoke)
    /\ WF_vars(Return \/ Throw)
    /\ WF_vars(Finish)

InitOnce == Start({OnceProgram})

FairSpec == InitOnce /\ [][Next]_vars /\ Fairness

InitIsolate == Start({IsolateProgram})

\* The calls of the isolate example and the synchronous deliveries they start.
NextIsolate ==
    \/ CallSubscribe
    \/ CallToken
    \/ CallUnsubscribe
    \/ CallUnsubscribeAll
    \/ CallHasSubscribers
    \/ CallPublish
    \/ Invoke
    \/ Return
    \/ Throw
    \/ Finish

\* The isolate example: subscriptions and synchronous publishes made on the
\* root API and on two isolated ones.
IsolateSpec == InitIsolate /\ [][NextIsolate]_vars

\* The calls that read or change the registry and the indexes.  A delivery
\* changes them only by the calls its callbacks make, unsubscribe(token) of a
\* subscribeOnce wrapper among them, so it reaches no other engine state.
NextRegistry ==
    \/ CallSubscribe
    \/ CallSubscribeOnce
    \/ CallToken
    \/ CallUnsubscribe
    \/ CallUnsubscribeAll
    \/ CallHasSubscribers

RegistrySpec == InitRegistry /\ [][NextRegistry]_vars

InitUnsubscribe == Start({CallbacksProgram, EmptyTopicProgram})

\* The registry calls of the programs that address subscriptions by callback
\* and by topic.
UnsubscribeSpec == InitUnsubscribe /\ [][NextRegistry]_vars


----------------------------------------------------------------------------
(* The programs that exercise the topic matcher *)

\* An ordinary character and characters with a meaning in a RegExp source or
\* in the text of a RegExp.
Characters == {"a", ".", "*", "^", "/", "\\"}

\* The literal "^a.*", after the README's literal '^part1.*', and "/a/", the
\* text of the pattern /a/.
LiteralExamples == {<<"^", "a", ".", "*">>, <<"/", "a", "/">>}

\* Every string of at most MaxLiteralLen characters, and the examples.
LiteralStrings ==
    UNION {[1..n -> Characters] : n \in 0..MaxLiteralLen} \cup LiteralExamples

\* The sources of the patterns subscribed next to a literal.
PatternSources == {<<"a">>, <<"^", "a", ".", "*">>}

\* One literal specifier and one pattern on the root API; every string is a
\* topic.
LiteralPrograms ==
    {Program({Undefined}, {Str(s), Re(r)}, {Fn("c1")}, {FALSE},
             {Str(t) : t \in LiteralStrings}, {"d1"}, {TRUE}) :
        s \in LiteralStrings, r \in PatternSources}

InitLiteral == Start(LiteralPrograms)

\* subscribe builds the key and the pattern of a specifier, hasSubscribers
\* matches a topic against the registry as publish does.
NextLiteral ==
    \/ CallSubscribe
    \/ CallToken
    \/ CallHasSubscribers

LiteralSpec == InitLiteral /\ [][NextLiteral]_vars
----------------------------------------------------------------------------
(* Views of the state used by the properties *)

Range(seq) == {seq[i] : i \in 1..Len(seq)}

\* The tokens of a sequence of [token, callback] pairs or of log entries.
TokensOf(seq) == {seq[i].token : i \in 1..Len(seq)}

\* The tokens created so far.
Created == 1..Len(tokens)

\* Where token t is registered in engine E: the (key, callback) pairs under
\* which the registry holds it, whether the live-token set has it, the
\* (callback, key) pairs of the callback index and the scopes of the scope
\* index that hold it.
Places(E, t) ==
    [registry |->
        {<<E.subscriptions[i].key, p.callback>> :
            i \in {j \in 1..Len(E.subscriptions) :
                      t \in TokensOf(E.subscriptions[j].callbacks)},
            p \in {q \in UNION {Range(E.subscriptions[j].callbacks) :
                                   j \in 1..Len(E.subscriptions)} : q.token = t}},
     live |-> t \in E.subscriptionTokens,
     callbacks |->
        {ck \in UNION {{<<c, k>> : k \in DOMAIN E.callbackSubscriptionTokens[c]} :
                          c \in DOMAIN E.callbackSubscriptionTokens} :
            t \in E.callbackSubscriptionTokens[ck[1]][ck[2]]},
     scopes |-> {s \in DOMAIN E.scopeSubscriptionTokens :
                    t \in E.scopeSubscriptionTokens[s]}]

\* Token t is in none of the four structures.
Nowhere == [registry |-> {}, live |-> FALSE, callbacks |-> {}, scopes |-> {}]

\* Token t is registered as subscribe registered it.
Home(t) ==
    [registry |-> {<<tokens[t].subscriptionKey, tokens[t].callback>>},
     live |-> TRUE,
     callbacks |-> {<<tokens[t].callback, tokens[t].subscriptionKey>>},
     scopes |-> {tokens[t].scope}]

\* The tokens a publish of eventName on store `store` would deliver to.
Resolved(store, eventName) == TokensOf(getCallbacksForEventName(store, eventName))

\* The delivery function has called exactly its first n callbacks, each once,
\* each with the function subscribed and the arguments of the publish.
CalledFirst(d, n) ==
    /\ Len(d.log) = n
    /\ \A i \in 1..n :
        /\ d.log[i].token = d.callbacks[i].token
        /\ d.log[i].fn = tokens[d.callbacks[i].token].callback.fn
        /\ d.log[i].eventName = d.eventName
        /\ d.log[i].data = d.data

\* The callbacks captured are those of the subscriptions that were live and
\* matched the topic when publish was called, one each.
CapturedLive(d) ==
    /\ TokensOf(d.callbacks) = d.live
    /\ Len(d.callbacks) = Cardinality(d.live)
    /\ d.live # {}

\* forEach is done: the delivery function is about to return.
Done(d) == ~d.running /\ d.idx > Len(d.callbacks)

----------------------------------------------------------------------------
(* Delivery *)

\* C1: a synchronous publish has called, by the time it returns, the callback
\* of every subscription that was live and matched the topic when it was
\* called, each exactly once and with the topic and the payload of the
\* publish; none of its calls is left to a timer.
C1_SyncPublishDelivers ==
    /\ \A d \in Range(timers) : ~d.sync
    /\ \A d \in Range(stack) :
        d.sync =>
            /\ CapturedLive(d)
            /\ CalledFirst(d, IF d.running THEN d.idx ELSE d.idx - 1)
            /\ Done(d) =>
                /\ TokensOf(d.log) = d.live
                /\ Len(d.log) = Cardinality(d.live)

\* A synchronous publish is about to return after calling two callbacks, and
\* a third subscription, not matching or no longer live, was not called.
C1_Witness ==
    \E d \in Range(stack) :
        /\ d.sync
        /\ Done(d)
        /\ Len(d.log) = 2
        /\ \E u \in Created : u \notin TokensOf(d.log)

\* A delivery function waiting in a timer has called nothing; one that is not
\* synchronous runs only at the bottom of the stack, started by the host, and
\* has called the callbacks it captured in order, each once, with the topic and
\* the payload of its publish.
C2_Deferred ==
    /\ \A d \in Range(timers) :
        /\ ~d.sync
        /\ CapturedLive(d)
        /\ CalledFirst(d, 0)
        /\ d.idx = 1 /\ ~d.running
    /\ \A i \in 1..Len(stack) :
        ~stack[i].sync =>
            /\ i = 1
            /\ CapturedLive(stack[i])
            /\ CalledFirst(stack[i], IF stack[i].running THEN stack[i].idx
                                     ELSE stack[i].idx - 1)

\* A delivery function that is not synchronous starts running only when the
\* host takes it from the timers, with no code running.
C2_StartedByHost ==
    (Len(stack') > Len(stack) /\ ~stack'[Len(stack')].sync)
        => /\ stack = <<>>
           /\ timers # <<>>
           /\ stack' = <<Head(timers)>>
           /\ timers' = Tail(timers)

\* The delivery function numbered id has run to its end, every captured
\* callback called once.
C2_Delivered(id) ==
    /\ stack # <<>>
    /\ stack[1].id = id
    /\ ~stack[1].sync
    /\ Done(stack[1])
    /\ CalledFirst(stack[1], Len(stack[1].callbacks))
    /\ TokensOf(stack[1].log) = stack[1].live

\* C2: an asynchronous publish calls no callback before it returns; the
\* callbacks it captured are called, each exactly once with the topic and the
\* payload, when the host runs the scheduled task; and when the host runs
\* every scheduled task, every scheduled delivery is eventually made.
C2_AsyncPublishDelivers ==
    /\ []C2_Deferred
    /\ [][C2_StartedByHost]_vars
    /\ \A id \in 1..MaxPending :
        (\E d \in Range(timers) : d.id = id) ~> C2_Delivered(id)

\* An asynchronous delivery has been made while another one still waits.
C2_Witness ==
    /\ timers # <<>>
    /\ \E id \in 1..MaxPending : C2_Delivered(id)

\* C3: the function given to subscribeOnce is called at most once, however
\* many deliveries captured its subscription.
C3_OnceCalledAtMostOnce ==
    \A t \in Created : calls[t] <= 1

\* C4: once the wrapper of a subscribeOnce subscription has run, the
\* subscription is in none of the four structures, no publish resolves to it
\* and hasSubscribers does not count it.
C4_OnceRemovedAfterDelivery ==
    \A t \in Created :
        calls[t] >= 1 =>
            /\ Places(Engine, t) = Nowhere
            /\ \A topic \in program.topics :
                /\ t \notin Resolved(subscriptions, topic)
                /\ hasSubscribers(Engine, topic) = Bool(LiveMatching(topic) \ {t} # {})
            /\ hasSubscribers(Engine, Undefined) = Bool(subscriptionTokens \ {t} # {})

\* The delivery that called a subscribeOnce function has ended, and another
\* subscription to the same topic is still live.
C4_Witness ==
    /\ stack = <<>>
    /\ timers = <<>>
    /\ \E t \in Created :
        /\ calls[t] = 1
        /\ \E u \in subscriptionTokens :
            tokens[u].subscriptionKey = tokens[t].subscriptionKey

----------------------------------------------------------------------------
(* Removal *)

\* C5: invoking the token of a live subscription, or passing it to
\* unsubscribe, returns true and removes that subscription from the four
\* structures; every other subscription stays where it was, and a publish
\* afterwards resolves to the same subscriptions but that one.
C5_LiveTokenRemovesOne ==
    \A t \in subscriptionTokens :
        LET invoked_ == token(Engine, t)
            passed == unsubscribe(Engine, Tok(t), Undefined)
        IN /\ invoked_.value = TRUE
           /\ passed.value = "true"
           /\ passed.engine = invoked_.engine
           /\ Places(Engine, t) = Home(t)
           /\ Places(invoked_.engine, t) = Nowhere
           /\ \A u \in Created \ {t} :
                Places(invoked_.engine, u) = Places(Engine, u)
           /\ \A topic \in program.topics :
                Resolved(invoked_.engine.subscriptions, topic)
                    = Resolved(subscriptions, topic) \ {t}

\* Two live subscriptions of one callback under one key: the token of the
\* first removes it and the second stays live.
C5_Witness ==
    \E t \in subscriptionTokens, u \in subscriptionTokens :
        /\ t < u
        /\ tokens[t].subscriptionKey = tokens[u].subscriptionKey
        /\ tokens[t].callback = tokens[u].callback
        /\ token(Engine, t).value = TRUE
        /\ u \in token(Engine, t).engine.subscriptionTokens
        /\ t \notin token(Engine, t).engine.subscriptionTokens

\* C6: invoking the token of a subscription that is no longer live returns
\* false, whatever else is subscribed under its key.
C6_DeadTokenReturnsFalse ==
    \A t \in Created \ subscriptionTokens :
        token(Engine, t).value = FALSE

\* C7: removing a subscription that is no longer live changes nothing:
\* neither invoking its token, nor passing the token to unsubscribe, nor the
\* self-removal of a subscribeOnce wrapper that is called again.
C7_RemovingRemovedChangesNothing ==
    \A t \in Created \ subscriptionTokens :
        /\ token(Engine, t).engine = Engine
        /\ unsubscribe(Engine, Tok(t), Undefined).engine = Engine
        /\ callCallback(Engine, tokens[t].callback) = Engine

\* A subscribeOnce wrapper was called a second time, its subscription gone,
\* while another subscription under the same key is live.
C7_Witness ==
    \E t \in Created \ subscriptionTokens :
        /\ calls[t] = 2
        /\ subscriptions_has(subscriptions, tokens[t].subscriptionKey)
        /\ token(Engine, t).engine = Engine

\* C8: unsubscribeAll on an isolated scope that never subscribed does not
\* raise, returns false and changes nothing, with a topic and without.
C8_UnsubscribeAllOnFreshScope ==
    \A scope \in Scopes \ {Undefined} :
        (\A t \in Created : tokens[t].scope # scope) =>
            \A eventName \in program.eventNames \cup {Undefined} :
                unsubscribeAll(Engine, scope, eventName)
                    = [engine |-> Engine, value |-> "false"]

\* The live subscriptions a scope made under the key of a specifier.
OfScopeUnderKey(scope, eventName) ==
    {t \in subscriptionTokens :
        /\ tokens[t].scope = scope
        /\ tokens[t].subscriptionKey = createSubscriptionKey(eventName)}

\* C9: unsubscribeAll(topic) of an isolated scope that has subscribed removes
\* the subscriptions that scope made under the key of the topic and no other,
\* and returns true exactly when it removed one.
C9_ScopedUnsubscribeAllTopic ==
    \A scope \in DOMAIN scopeSubscriptionTokens \ {Undefined} :
        \A eventName \in program.eventNames :
            LET r == unsubscribeAll(Engine, scope, eventName)
                mine == OfScopeUnderKey(scope, eventName)
            IN /\ r.value = Bool(mine # {})
               /\ r.engine.subscriptionTokens = subscriptionTokens \ mine
               /\ \A u \in mine : Places(r.engine, u) = Nowhere
               /\ \A u \in Created \ mine : Places(r.engine, u) = Places(Engine, u)

\* C10: unsubscribeAll() of the root API leaves the registry, the live-token
\* set and the callback index empty, so that hasSubscribers and publish return
\* false, and returns true exactly when a subscription was live before.
C10_RootUnsubscribeAll ==
    LET r == unsubscribeAll(Engine, Undefined, Undefined)
    IN /\ r.engine.subscriptions = <<>>
       /\ r.engine.subscriptionTokens = {}
       /\ r.engine.callbackSubscriptionTokens = EmptyMap
       /\ \A t \in Created :
            /\ Places(r.engine, t).registry = {}
            /\ Places(r.engine, t).callbacks = {}
       /\ hasSubscribers(r.engine, Undefined) = "false"
       /\ \A topic \in program.topics :
            /\ hasSubscribers(r.engine, topic) = "false"
            /\ \A data \in program.payloads, sync \in program.sync :
                publish(r.engine.subscriptions, topic, data, sync) = "false"
       /\ r.value = Bool(\E t \in Created : Places(Engine, t).registry # {})

\* The root API and an isolated scope both have a live subscription, under
\* different keys, and unsubscribeAll() returns true.
C10_Witness ==
    /\ \E t \in subscriptionTokens, u \in subscriptionTokens :
        /\ tokens[t].scope = Undefined
        /\ tokens[u].scope # Undefined
        /\ tokens[t].subscriptionKey # tokens[u].subscriptionKey
    /\ unsubscribeAll(Engine, Undefined, Undefined).value = "true"

----------------------------------------------------------------------------
(* unsubscribe, and subscribe with invalid arguments *)

\* Engine E without the subscriptions `gone`: they are in none of the four
\* structures and every other subscription is held where it was.
Without(E, gone) ==
    /\ E.subscriptionTokens = subscriptionTokens \ gone
    /\ \A t \in gone : Places(E, t) = Nowhere
    /\ \A u \in Created \ gone : Places(E, u) = Places(Engine, u)

\* The live subscriptions registered with callback `callback`.
OfCallback(callback) ==
    {t \in subscriptionTokens : tokens[t].callback = callback}

\* C11: unsubscribe(callback) removes every live subscription registered with
\* that function, under every key and in every scope, and no subscription
\* registered with another function, the same keys included.
C11_UnsubscribeCallback ==
    \A callback \in program.callbacks :
        LET r == unsubscribe(Engine, callback, Undefined)
        IN /\ Without(r.engine, OfCallback(callback))
           /\ \A topic \in program.topics :
                Resolved(r.engine.subscriptions, topic)
                    = Resolved(subscriptions, topic) \ OfCallback(callback)

\* A function is subscribed under two keys, or in two scopes, next to a
\* subscription of another function or wrapper under one of its keys;
\* unsubscribe(callback) removes the former and keeps the latter.
C11_Witness ==
    \E callback \in program.callbacks :
        \E t \in OfCallback(callback), u \in OfCallback(callback),
           v \in subscriptionTokens \ OfCallback(callback) :
            /\ tokens[t].subscriptionKey # tokens[u].subscriptionKey
            /\ tokens[v].subscriptionKey = tokens[t].subscriptionKey
            /\ unsubscribe(Engine, callback, Undefined).engine.subscriptionTokens
                  = subscriptionTokens \ OfCallback(callback)
            /\ subscriptionTokens \ OfCallback(callback) # {}

\* The live subscriptions registered with callback `callback` under the key of
\* specifier `eventName`.
OfCallbackUnderKey(eventName, callback) ==
    {t \in OfCallback(callback) :
        tokens[t].subscriptionKey = createSubscriptionKey(eventName)}

\* C12: unsubscribe(spec, callback) removes the live subscriptions of that
\* callback under the key of spec, all of them, and no other: not those of the
\* callback under other keys, not those of other callbacks under that key.
C12_UnsubscribeSpecCallback ==
    \A eventName \in program.eventNames, callback \in program.callbacks :
        LET r == unsubscribe(Engine, eventName, callback)
        IN /\ Without(r.engine, OfCallbackUnderKey(eventName, callback))
           /\ r.value = Bool(OfCallbackUnderKey(eventName, callback) # {})

\* A callback is subscribed twice under one key and once under another;
\* unsubscribe(spec, callback) removes the two and keeps the third.
C12_Witness ==
    \E eventName \in program.eventNames, callback \in program.callbacks :
        /\ Cardinality(OfCallbackUnderKey(eventName, callback)) = 2
        /\ OfCallback(callback) \ OfCallbackUnderKey(eventName, callback) # {}
        /\ unsubscribe(Engine, eventName, callback).engine.subscriptionTokens
              = subscriptionTokens \ OfCallbackUnderKey(eventName, callback)

\* What a client can pass to unsubscribe, valid or not.
AnyUnsubscribeArguments ==
    UnsubscribeArguments
        \cup ({Null, Undefined} \X (program.callbacks \cup {Null}))
        \cup (program.eventNames \X {Null, Str(<<"a">>)})
        \cup (program.callbacks \X program.callbacks)

\* The live subscriptions the arguments of unsubscribe address.
Addressed(eventName, callback) ==
    IF eventName.type = "token" THEN {eventName.id} \cap subscriptionTokens
    ELSE IF eventName.type = "function" THEN OfCallback(eventName)
    ELSE IF eventName.type \in {"string", "regexp"}
    THEN OfCallbackUnderKey(eventName, callback)
    ELSE {}

\* C13: unsubscribe returns true exactly when it removed a live subscription;
\* when its arguments address no live subscription it returns false and
\* changes nothing.
C13_UnsubscribeResult ==
    \A args \in AnyUnsubscribeArguments :
        LET r == unsubscribe(Engine, args[1], args[2])
        IN /\ r.value \in {"true", "false"}
           /\ r.value = Bool(r.engine.subscriptionTokens # subscriptionTokens)
           /\ r.value = Bool(Addressed(args[1], args[2]) # {})
           /\ Addressed(args[1], args[2]) = {} => r.engine = Engine

\* A removed token whose key is still registered, next to a live
\* subscription: unsubscribe of the removed token returns false, unsubscribe
\* of the live one returns true.
C13_Witness ==
    \E t \in Created \ subscriptionTokens, u \in subscriptionTokens :
        /\ tokens[u].subscriptionKey = tokens[t].subscriptionKey
        /\ unsubscribe(Engine, Tok(t), Undefined).value = "false"
        /\ unsubscribe(Engine, Tok(u), Undefined).value = "true"

\* Values that are not functions, and values that are neither strings nor
\* patterns.
NotFunctions == {Undefined, Null, Str(<<"a">>), Re(<<".">>)}

NotEventNames == {Undefined, Null, Fn("c1")} \cup {Tok(t) : t \in Created}

\* C14: subscribe and subscribeOnce return null and change nothing when the
\* callback is not a function or the specifier is neither a string nor a
\* pattern.
C14_InvalidSubscribe ==
    \A scope \in program.scopes :
        \A pair \in (NotEventNames \X (program.callbacks \cup NotFunctions))
                    \cup ((program.eventNames \cup NotEventNames) \X NotFunctions) :
            /\ subscribe(Engine, scope, pair[1], pair[2], Len(tokens) + 1)
                  = [engine |-> Engine, value |-> Null]
            /\ subscribeOnce(Engine, scope, pair[1], pair[2], Len(tokens) + 1)
                  = [engine |-> Engine, value |-> Null]

\* Subscriptions are live, and a subscribe without a callback returns null.
C14_Witness ==
    /\ subscriptionTokens # {}
    /\ \E eventName \in program.eventNames :
        subscribe(Engine, Undefined, eventName, Undefined, Len(tokens) + 1).value = Null

----------------------------------------------------------------------------
(* Throwing callbacks, the snapshot, scopes *)

\* How many callbacks delivery function d has called.
CalledSoFar(d) == IF d.running THEN d.idx ELSE d.idx - 1

\* After a callback threw, the delivery function still runs, above the same
\* callers, and goes on to the callback after the one that threw.
C15_Continues ==
    /\ Len(stack') = Len(stack)
    /\ SubSeq(stack', 1, Len(stack) - 1) = SubSeq(stack, 1, Len(stack) - 1)
    /\ stack'[Len(stack)].idx = Top.idx + 1
    /\ stack'[Len(stack)].log = Top.log
    /\ stack'[Len(stack)].callbacks = Top.callbacks
    /\ timers' = timers

\* A delivery in which a callback threw has called its callbacks in order,
\* each once, and has called them all when it ends; its publish found
\* callbacks, which is when publish returns true.
C15_AllCalled ==
    \A d \in Range(stack) :
        d.threw =>
            /\ CalledFirst(d, CalledSoFar(d))
            /\ Done(d) => TokensOf(d.log) = TokensOf(d.callbacks)
            /\ d.callbacks # <<>>

\* C15: in a synchronous or deferred delivery a callback that throws does not
\* keep the other captured callbacks from being called exactly once; the
\* exception reaches neither the publisher nor the host, and a synchronous
\* publish still returns true.
C15_ThrowDoesNotAbort ==
    /\ []C15_AllCalled
    /\ [][Throw => C15_Continues]_vars

\* A callback is running after an earlier callback of the same delivery
\* threw.
C15_Witness ==
    \E d \in Range(stack) :
        /\ d.threw
        /\ d.running
        /\ d.idx >= 2

\* The delivery functions that exist, scheduled or running.
DeliveryFunctions == Range(timers) \cup Range(stack)

\* A step leaves what every existing delivery function captured as it was:
\* running ones stay in place with their callbacks and arguments, scheduled
\* ones only leave the timers from the front or are joined by a new one.
C16_SnapshotKept ==
    /\ \A i \in 1..Len(stack) :
        i <= Len(stack') =>
            /\ stack'[i].callbacks = stack[i].callbacks
            /\ stack'[i].live = stack[i].live
            /\ stack'[i].eventName = stack[i].eventName
            /\ stack'[i].data = stack[i].data
    /\ \/ timers' = timers
       \/ timers # <<>> /\ timers' = Tail(timers)
       \/ /\ Len(timers') = Len(timers) + 1
          /\ SubSeq(timers', 1, Len(timers)) = timers

\* Every delivery function holds the callbacks of the subscriptions that
\* were live and matched when publish was called, calls them in order whether
\* or not they are still live, and calls no other.
C16_SnapshotCalled ==
    \A d \in DeliveryFunctions :
        /\ CapturedLive(d)
        /\ CalledFirst(d, CalledSoFar(d))
        /\ TokensOf(d.log) \subseteq d.live
        /\ Done(d) => TokensOf(d.log) = d.live

\* C16: the callbacks a publish delivers to are fixed when publish is called:
\* subscriptions removed afterwards are still called by that delivery,
\* subscriptions added afterwards are not, and no change of the registry
\* made during the delivery changes it.
C16_SnapshotAtPublish ==
    /\ []C16_SnapshotCalled
    /\ [][C16_SnapshotKept]_vars

\* A delivery has ended that called a subscription removed before the call,
\* and did not call a live matching subscription made after the publish.
C16_Witness ==
    \E d \in Range(stack) :
        /\ Done(d)
        /\ \E i \in 1..Len(d.log) :
            /\ ~d.log[i].wasLive
            /\ calls[d.log[i].token] = 0
        /\ \E u \in LiveMatching(d.eventName) : u \notin d.live

\* The scopes of the subscriptions delivery function d has called.
ScopesCalled(d) == {tokens[d.log[i].token].scope : i \in 1..Len(d.log)}

IsolateExample(d) ==
    /\ Cardinality(d.live) = 3
    /\ {tokens[t].scope : t \in d.live} = Scopes

\* C18: in the isolate example a publish on the root API calls the root
\* subscriber only, and a publish on an isolated API object calls the root
\* subscriber and the subscriber of that scope, not the one of the other
\* scope.
C18_PublishIsScoped ==
    \A d \in Range(stack) :
        (IsolateExample(d) /\ Done(d)) =>
            ScopesCalled(d) = {Undefined, d.via}

----------------------------------------------------------------------------
(* Results of publish and hasSubscribers *)

\* A publish call that finds no live matching subscription calls and
\* schedules nothing; one that finds some creates one delivery function, for
\* that topic, with the callbacks of the subscriptions found.
C19_PublishStep ==
    \A scope \in program.scopes, topic \in program.topics,
       data \in program.payloads, sync \in program.sync :
        Publish(scope, topic, data, sync) =>
            IF LiveMatching(topic) = {}
            THEN /\ timers' = timers
                 /\ Len(stack') = Len(stack)
                 /\ calls' = calls
                 /\ \A i \in 1..Len(stack) : stack'[i].log = stack[i].log
            ELSE LET d == IF sync THEN stack'[Len(stack')] ELSE timers'[Len(timers')]
                 IN /\ Len(timers') + Len(stack') = Len(timers) + Len(stack) + 1
                    /\ d.eventName = topic
                    /\ d.live = LiveMatching(topic)
                    /\ d.log = <<>>

\* publish returns true exactly when a live subscription matches the topic.
C19_PublishValue ==
    \A topic \in program.topics, data \in program.payloads, sync \in program.sync :
        publish(subscriptions, topic, data, sync) = Bool(LiveMatching(topic) # {})

\* C19: publish returns true exactly when a live subscription matches the
\* topic at the call, delivered yet or not; when it returns false no callback
\* is called and no delivery is scheduled.
C19_PublishResult ==
    /\ []C19_PublishValue
    /\ [][C19_PublishStep]_vars

\* A publish returned true and its delivery is still scheduled, nothing
\* called, while a publish of the same topic would now return false.
C19_Witness ==
    /\ timers # <<>>
    /\ Head(timers).log = <<>>
    /\ publish(subscriptions, Head(timers).eventName, Head(timers).data, FALSE) = "false"

\* C20: hasSubscribers(topic) is what publish(topic) would return: true
\* exactly when a live subscription of any scope matches the topic; the call
\* changes nothing and calls no callback.
C20_HasSubscribersIsPublish ==
    /\ [](\A topic \in program.topics :
            /\ hasSubscribers(Engine, topic) = Bool(LiveMatching(topic) # {})
            /\ \A data \in program.payloads, sync \in program.sync :
                hasSubscribers(Engine, topic) = publish(subscriptions, topic, data, sync))
    /\ [][CallHasSubscribers =>
            UNCHANGED <<subscriptions, subscriptionTokens, callbackSubscriptionTokens,
                        scopeSubscriptionTokens, tokens, timers, calls>>]_vars

\* Subscriptions are live, of an isolated scope among them, and
\* hasSubscribers is true for one topic and false for another.
C20_Witness ==
    /\ \E t \in subscriptionTokens : tokens[t].scope # Undefined
    /\ \E topic \in program.topics, other \in program.topics :
        /\ hasSubscribers(Engine, topic) = "true"
        /\ hasSubscribers(Engine, other) = "false"


----------------------------------------------------------------------------
(* Registry and indexes *)

\* A step that removes the last live subscription leaves hasSubscribers()
\* false.
C21_LastRemoved ==
    (subscriptionTokens # {} /\ subscriptionTokens' = {}) =>
        hasSubscribers(Engine', Undefined) = "false"

\* C21: hasSubscribers() without a topic is true exactly when a live
\* subscription exists, of any topic and any scope; it is false as soon as
\* the last one is removed, by a token, by unsubscribe, by unsubscribeAll or
\* by a subscribeOnce wrapper removing itself during a delivery.
C21_HasSubscribersNoTopic ==
    /\ [](hasSubscribers(Engine, Undefined) = Bool(subscriptionTokens # {}))
    /\ [][C21_LastRemoved]_vars

\* Inside a delivery, the wrapper of subscribeOnce has removed the last live
\* subscription and hasSubscribers() is false.
C21_Witness ==
    /\ stack # <<>>
    /\ Top.running
    /\ \E t \in Created : calls[t] = 1
    /\ subscriptionTokens = {}
    /\ Created # {}
    /\ hasSubscribers(Engine, Undefined) = "false"

\* Two live subscriptions made with the same scope, specifier and function.
Identical(t, u) ==
    /\ t # u
    /\ tokens[t].scope = tokens[u].scope
    /\ tokens[t].eventName = tokens[u].eventName
    /\ tokens[t].callback = tokens[u].callback

\* A step in which subscribe or subscribeOnce returned a token: the token is
\* new, its subscription is registered as its own, and every subscription
\* that was live keeps its registration.
C22_NewToken ==
    Len(tokens') > Len(tokens) =>
        LET n == Len(tokens')
        IN /\ n \notin Created
           /\ n \notin subscriptionTokens
           /\ Places(Engine, n) = Nowhere
           /\ Places(Engine', n) =
                [registry |-> {<<tokens'[n].subscriptionKey, tokens'[n].callback>>},
                 live |-> TRUE,
                 callbacks |-> {<<tokens'[n].callback, tokens'[n].subscriptionKey>>},
                 scopes |-> {tokens'[n].scope}]
           /\ \A u \in subscriptionTokens : Places(Engine', u) = Places(Engine, u)
           /\ \A topic \in program.topics :
                Resolved(subscriptions', topic) \ {n} = Resolved(subscriptions, topic)

\* Removing one of two identical live subscriptions leaves the other live,
\* registered, and resolved by a publish of every topic that resolved it.
C22_OtherStays ==
    \A t \in subscriptionTokens, u \in subscriptionTokens :
        Identical(t, u) =>
            LET r == token(Engine, t)
            IN /\ r.value
               /\ Places(r.engine, t) = Nowhere
               /\ Places(r.engine, u) = Home(u)
               /\ \A topic \in program.topics :
                    Resolved(r.engine.subscriptions, topic) =
                        Resolved(subscriptions, topic) \ {t}

\* C22: every successful subscribe or subscribeOnce returns a token no
\* earlier call returned and creates a subscription of its own, also when the
\* topic and the function are those of an earlier subscription; removing one
\* of two identical subscriptions leaves the other live and delivered to.
C22_DistinctTokens ==
    /\ []C22_OtherStays
    /\ [][C22_NewToken]_vars

\* Of two identical subscriptions one was removed, and a later delivery has
\* called the other.
C22_Witness ==
    \E t \in Created \ subscriptionTokens, u \in subscriptionTokens :
        /\ Identical(t, u)
        /\ \E d \in Range(stack) :
            /\ t \notin d.live
            /\ u \in TokensOf(d.log)

----------------------------------------------------------------------------
(* Topic matching *)

\* The registry keys under which token t is held.
KeysOf(t) == {place[1] : place \in Places(Engine, t).registry}

\* C23: a subscription made with a literal string s is resolved for a topic
\* exactly when the topic is s, character for character, also when s holds
\* characters that have a meaning in a RegExp; a literal and a pattern never
\* have the same registry key.
C23_LiteralIsExact ==
    /\ \A t \in subscriptionTokens :
        isString(tokens[t].eventName) =>
            \A topic \in program.topics :
                /\ (t \in Resolved(subscriptions, topic))
                       <=> (topic.src = tokens[t].eventName.src)
                /\ (topic.src = tokens[t].eventName.src)
                       => hasSubscribers(Engine, topic) = "true"
    /\ \A t \in subscriptionTokens, u \in subscriptionTokens :
        (isString(tokens[t].eventName) /\ isRegExp(tokens[u].eventName)) =>
            /\ tokens[t].subscriptionKey # tokens[u].subscriptionKey
            /\ KeysOf(t) \cap KeysOf(u) = {}
    /\ \A e \in program.eventNames, f \in program.eventNames :
        (isString(e) /\ isRegExp(f)) =>
            createSubscriptionKey(e) # createSubscriptionKey(f)

\* A literal with RegExp characters is live next to a pattern; read as a
\* pattern it would match another topic, which does not resolve it.
C23_Witness ==
    \E t \in subscriptionTokens, u \in subscriptionTokens :
        /\ isString(tokens[t].eventName)
        /\ isRegExp(tokens[u].eventName)
        /\ \E i \in 1..Len(tokens[t].eventName.src) :
            tokens[t].eventName.src[i] \in MetaCharacters
        /\ \E topic \in program.topics :
            /\ topic.src # tokens[t].eventName.src
            /\ Match(topic.src, <<"^">> \o tokens[t].eventName.src \o <<"$">>)
            /\ t \notin Resolved(subscriptions, topic)
            /\ u \in Resolved(subscriptions, topic)

----------------------------------------------------------------------------
(* Index upkeep *)

\* C24: the scope index has an entry for a scope exactly when the scope owns
\* a live token, and no scope is mapped to an empty set; when no
\* subscription is live the scope index is empty.
C24_ScopeIndexPruned ==
    /\ DOMAIN scopeSubscriptionTokens = {tokens[t].scope : t \in subscriptionTokens}
    /\ \A scope \in DOMAIN scopeSubscriptionTokens :
        scopeSubscriptionTokens[scope] # {}
    /\ subscriptionTokens = {} => scopeSubscriptionTokens = EmptyMap

\* The live subscriptions of a function under one key.
LiveOfUnder(callback, subscriptionKey) ==
    {t \in OfCallback(callback) : tokens[t].subscriptionKey = subscriptionKey}

\* The functions subscribed so far, subscribeOnce wrappers among them, and
\* the functions of the program that may never have been subscribed.
Subscribed == {tokens[t].callback : t \in Created} \cup program.callbacks

C25_IndexIsLive ==
    /\ DOMAIN callbackSubscriptionTokens = {c \in Subscribed : OfCallback(c) # {}}
    /\ \A c \in DOMAIN callbackSubscriptionTokens :
        /\ DOMAIN callbackSubscriptionTokens[c] # {}
        /\ DOMAIN callbackSubscriptionTokens[c] =
                {tokens[t].subscriptionKey : t \in OfCallback(c)}
        /\ \A k \in DOMAIN callbackSubscriptionTokens[c] :
            /\ callbackSubscriptionTokens[c][k] # {}
            /\ callbackSubscriptionTokens[c][k] = LiveOfUnder(c, k)
    /\ \A c \in Subscribed :
        callbackSubscriptionTokens_has(callbackSubscriptionTokens, c) <=> OfCallback(c) # {}

\* A step that removes the last live subscription of a function removes the
\* function from the index.
C25_PrunedAtOnce ==
    \A c \in DOMAIN callbackSubscriptionTokens :
        (\A t \in OfCallback(c) : t \notin subscriptionTokens') =>
            ~callbackSubscriptionTokens_has(callbackSubscriptionTokens', c)

\* C25: the callback index has an entry for a function exactly when the
\* function has a live subscription, and under it an entry for a key exactly
\* when a live token of the function is registered under the key, holding
\* those tokens; no empty Set or Map is stored, so the test for a known
\* callback is true exactly for the functions with a live subscription.
C25_CallbackIndexExact ==
    /\ []C25_IndexIsLive
    /\ [][C25_PrunedAtOnce]_vars

\* A function lost its subscriptions under one key and keeps a live one under
\* another, while a second function that was subscribed has none left.
C25_Witness ==
    \E c \in Subscribed, b \in Subscribed :
        /\ c # b
        /\ OfCallback(b) # {}
        /\ \E t \in Created \ subscriptionTokens :
            /\ tokens[t].callback = b
            /\ LiveOfUnder(b, tokens[t].subscriptionKey) = {}
        /\ OfCallback(c) = {}
        /\ \E t \in Created : tokens[t].callback = c
        /\ ~callbackSubscriptionTokens_has(callbackSubscriptionTokens, c)

\* The tokens held by the registry, by the callback index and by the scope
\* index.
InRegistry == UNION {TokensOf(subscriptions[i].callbacks) : i \in 1..Len(subscriptions)}

InCallbackIndex ==
    UNION {UNION {callbackSubscriptionTokens[c][k] :
                     k \in DOMAIN callbackSubscriptionTokens[c]} :
              c \in DOMAIN callbackSubscriptionTokens}

InScopeIndex ==
    UNION {scopeSubscriptionTokens[s] : s \in DOMAIN scopeSubscriptionTokens}

\* C26: the four structures agree on the live tokens: a token is in the
\* registry entry of its key, with its callback, exactly when it is in the
\* live-token set, exactly when the callback index holds it under its
\* callback and key, exactly when the scope index holds it under its scope;
\* no token is held under another key, callback or scope, or twice.
C26_StructuresAgree ==
    /\ InRegistry = subscriptionTokens
    /\ InCallbackIndex = subscriptionTokens
    /\ InScopeIndex = subscriptionTokens
    /\ subscriptionTokens \subseteq Created
    /\ \A t \in Created :
        Places(Engine, t) = IF t \in subscriptionTokens THEN Home(t) ELSE Nowhere
    /\ \A i \in 1..Len(subscriptions) :
        /\ Len(subscriptions[i].callbacks) =
                Cardinality(TokensOf(subscriptions[i].callbacks))
        /\ \A j \in 1..Len(subscriptions) :
            subscriptions[i].key = subscriptions[j].key => i = j

\* Subscriptions of two scopes and two keys were made; one was removed while
\* the others are live.
C26_Witness ==
    /\ \E t \in subscriptionTokens, u \in subscriptionTokens :
        /\ tokens[t].scope # tokens[u].scope
        /\ tokens[t].subscriptionKey # tokens[u].subscriptionKey
    /\ \E t \in Created \ subscriptionTokens :
        /\ Places(Engine, t) = Nowhere
        /\ \E u \in subscriptionTokens :
            /\ tokens[u].scope = tokens[t].scope
            /\ tokens[u].subscriptionKey = tokens[t].subscriptionKey

\* A step that removes the last token of a registry entry removes the entry.
C27_DeletedWithLastToken ==
    \A i \in 1..Len(subscriptions) :
        (TokensOf(subscriptions[i].callbacks) \cap subscriptionTokens' = {}) =>
            ~subscriptions_has(subscriptions', subscriptions[i].key)

\* C27: the registry never holds an entry whose callbacks Map is empty, at
\* top level and inside a callback during a delivery; an entry is deleted in
\* the step that removes its last token.
C27_NoEmptyEntry ==
    /\ [](\A i \in 1..Len(subscriptions) : subscriptions[i].callbacks # <<>>)
    /\ [](subscriptions_size(subscriptions) =
            Cardinality({tokens[t].subscriptionKey : t \in subscriptionTokens}))
    /\ [][C27_DeletedWithLastToken]_vars

\* Inside a callback, the last subscription of a key was removed while
\* another key keeps its entry.
C27_Witness ==
    /\ stack # <<>>
    /\ Top.running
    /\ subscriptions # <<>>
    /\ \E t \in Created \ subscriptionTokens :
        /\ t \in Top.live
        /\ ~subscriptions_has(subscriptions, tokens[t].subscriptionKey)

----------------------------------------------------------------------------
(* unsubscribeAll of a key and of a scope *)

\* The live subscriptions of every scope under the key of a specifier.
UnderKey(eventName) ==
    {t \in subscriptionTokens :
        tokens[t].subscriptionKey = createSubscriptionKey(eventName)}

\* C28: unsubscribeAll(spec) of the root API, for every valid specifier, the
\* empty string among them, removes the live subscriptions under the key of
\* spec, those of isolated scopes included, and no subscription under another
\* key; it returns true exactly when it removed one.
C28_RootUnsubscribeAllTopic ==
    \A eventName \in program.eventNames :
        LET r == unsubscribeAll(Engine, Undefined, eventName)
        IN /\ Without(r.engine, UnderKey(eventName))
           /\ r.value = Bool(UnderKey(eventName) # {})
           /\ UnderKey(eventName) = {} => r.engine = Engine

\* The live subscriptions a scope made.
OfScope(scope) == {t \in subscriptionTokens : tokens[t].scope = scope}

\* C29: unsubscribeAll() of an isolated scope that owns a live subscription
\* removes the live subscriptions of that scope, under every key, returns
\* true, and leaves the subscriptions of the root API and of the other
\* scopes live, those under the same keys included.
C29_ScopedUnsubscribeAll ==
    \A scope \in program.scopes \ {Undefined} :
        OfScope(scope) # {} =>
            LET r == unsubscribeAll(Engine, scope, Undefined)
            IN /\ r.value = "true"
               /\ Without(r.engine, OfScope(scope))
               /\ \A other \in program.scopes \ {scope} :
                    \A u \in OfScope(other) : Places(r.engine, u) = Home(u)
               /\ \A topic \in program.topics :
                    Resolved(r.engine.subscriptions, topic) =
                        Resolved(subscriptions, topic) \ OfScope(scope)

\* An isolated scope, the root API and another scope have live subscriptions
\* under one key, and the first has one under a second key as well.
C29_Witness ==
    \E scope \in program.scopes \ {Undefined} :
        /\ \E t \in OfScope(scope), u \in OfScope(scope) :
            tokens[t].subscriptionKey # tokens[u].subscriptionKey
        /\ \E t \in OfScope(scope), u \in OfScope(Undefined) :
            tokens[t].subscriptionKey = tokens[u].subscriptionKey
        /\ unsubscribeAll(Engine, scope, Undefined).value = "true"
        /\ unsubscribeAll(Engine, scope, Undefined).engine.subscriptionTokens
                = OfScope(Undefined)


----------------------------------------------------------------------------
(* Order of delivery *)

\* The place of token t in the registry: the index of its entry and its
\* index in the entry's callbacks Map.
Pos(store, t) ==
    LET i == CHOOSE k \in 1..Len(store) : t \in TokensOf(store[k].callbacks)
        j == CHOOSE k \in 1..Len(store[i].callbacks) : store[i].callbacks[k].token = t
    IN <<i, j>>

\* Token t comes before token u when the registry is iterated.
Before(store, t, u) ==
    \/ Pos(store, t)[1] < Pos(store, u)[1]
    \/ Pos(store, t)[1] = Pos(store, u)[1] /\ Pos(store, t)[2] < Pos(store, u)[2]

\* How the order of the registry comes about.  The subscriptions that stay
\* keep their order.  A new subscription comes last in the entry of its key
\* when the key has an entry, and last of all, in a new entry, when it has
\* none, also when the key had an entry earlier.
C30_RegistryOrder ==
    /\ \A t \in InRegistry \cap InRegistry', u \in InRegistry \cap InRegistry' :
        Before(subscriptions, t, u) <=> Before(subscriptions', t, u)
    /\ \A n \in InRegistry' \ InRegistry :
        LET key == tokens'[n].subscriptionKey
            older == InRegistry' \ {n}
        IN IF subscriptions_has(subscriptions, key)
           THEN \A u \in older :
                    Before(subscriptions', u, n) <=>
                        \/ tokens[u].subscriptionKey = key
                        \/ Pos(subscriptions, u)[1]
                               < IndexOfKey(subscriptions, key)
           ELSE \A u \in older : Before(subscriptions', u, n)

\* A publish captures the callbacks in the order of the registry.
C30_CapturedInOrder ==
    \A d \in DeliveryFunctions' \ DeliveryFunctions :
        (d.log = <<>> /\ ~d.running) =>
            /\ TokensOf(d.callbacks) = LiveMatching(d.eventName)
            /\ \A i \in 1..Len(d.callbacks), j \in 1..Len(d.callbacks) :
                i < j => Before(subscriptions, d.callbacks[i].token,
                                               d.callbacks[j].token)

\* A delivery calls the captured callbacks in the order it captured them.
C30_CalledInOrder ==
    \A d \in Range(stack) :
        /\ Len(d.log) <= Len(d.callbacks)
        /\ \A i \in 1..Len(d.log) : d.log[i].token = d.callbacks[i].token

\* C30: within one delivery the callbacks are called in the order of the
\* registry: entry by entry in the order in which the entries that exist were
\* created, an entry deleted and created again counting from its re-creation,
\* and within an entry in the order of subscription; this is not always the
\* order of the subscribe calls.
C30_DeliveryOrder ==
    /\ []C30_CalledInOrder
    /\ [][C30_RegistryOrder]_vars
    /\ [][C30_CapturedInOrder]_vars

\* A delivery has called a later subscription before an earlier one: the
\* later one shares the entry of a key created before the earlier one's.
C30_Witness ==
    \E d \in Range(stack) :
        \E i \in 1..Len(d.log), j \in 1..Len(d.log) :
            /\ i < j
            /\ d.log[i].token > d.log[j].token
            /\ tokens[d.log[i].token].subscriptionKey
                   # tokens[d.log[j].token].subscriptionKey

----------------------------------------------------------------------------
(* subscribeOnce and unsubscribe by function *)

\* The tokens subscribeOnce returned: their callback is the wrapper that
\* unsubscribes them.
Once == {t \in Created : tokens[t].callback.id = t}

\* The function that was passed to subscribeOnce for token t.
Wrapped(t) == Fn(tokens[t].callback.fn)

\* A step in which subscribeOnce(spec, cb) returned a token: the subscription
\* is registered with a function that is not cb and that no program holds,
\* and neither unsubscribe(cb) nor unsubscribe(spec, cb) would remove it.
C31_RegisteredUnderWrapper ==
    \A scope \in program.scopes, eventName \in program.eventNames,
       callback \in program.callbacks :
        (SubscribeOnce(scope, eventName, callback) /\ Len(tokens') > Len(tokens)) =>
            LET n == Len(tokens')
            IN /\ tokens'[n].callback # callback
               /\ tokens'[n].callback \notin program.callbacks
               /\ n \in Once'
               /\ Fn(tokens'[n].callback.fn) = callback
               /\ n \in (unsubscribe(Engine, callback, Undefined).engine.subscriptionTokens)'
               /\ n \in (unsubscribe(Engine, eventName, callback).engine.subscriptionTokens)'

\* unsubscribe called with a function of the program, alone or after a
\* specifier, leaves every live subscribeOnce subscription registered, and
\* returns false without changing anything when the function has no live
\* subscription of its own.
C31_UnsubscribeKeepsOnce ==
    \A callback \in program.callbacks, eventName \in program.eventNames \cup {Undefined} :
        LET r == IF eventName = Undefined
                 THEN unsubscribe(Engine, callback, Undefined)
                 ELSE unsubscribe(Engine, eventName, callback)
        IN /\ \A t \in Once \cap subscriptionTokens :
                /\ Places(Engine, t) = Home(t)
                /\ Places(r.engine, t) = Home(t)
                /\ \A topic \in program.topics :
                    t \in Resolved(subscriptions, topic)
                        => t \in Resolved(r.engine.subscriptions, topic)
           /\ OfCallback(callback) = {} =>
                r = [engine |-> Engine, value |-> "false"]

\* A step that removes a live subscribeOnce subscription is an invocation of
\* its token, unsubscribe(token), an unsubscribeAll, or the delivery function
\* calling its wrapper.
C31_RemovedOnlyBy ==
    \A t \in Once \cap subscriptionTokens :
        t \notin subscriptionTokens' =>
            \/ InvokeToken(t)
            \/ Unsubscribe(Tok(t), Undefined)
            \/ CallUnsubscribeAll
            \/ Invoke /\ Top.callbacks[Top.idx].token = t

\* C31: subscribeOnce(spec, cb) registers its subscription under a wrapper
\* function, not under cb: unsubscribe(cb) and unsubscribe(spec, cb) do not
\* remove it, and return false when cb has no live subscription of its own;
\* it is removed only by its token, by unsubscribeAll, or by its wrapper when
\* a delivery calls it.
C31_OnceIsNotUnderCallback ==
    /\ []C31_UnsubscribeKeepsOnce
    /\ [][C31_RegisteredUnderWrapper]_vars
    /\ [][C31_RemovedOnlyBy]_vars

\* A function was subscribed with subscribe and with subscribeOnce to one
\* topic; its own subscription is gone, the subscribeOnce one is live, and
\* unsubscribe of the function returns false and changes nothing.
C31_Witness ==
    \E t \in Once \cap subscriptionTokens, u \in Created \ subscriptionTokens :
        /\ tokens[u].callback = Wrapped(t)
        /\ tokens[u].subscriptionKey = tokens[t].subscriptionKey
        /\ OfCallback(Wrapped(t)) = {}
        /\ unsubscribe(Engine, Wrapped(t), Undefined) = [engine |-> Engine, value |-> "false"]
        /\ unsubscribe(Engine, tokens[t].eventName, Wrapped(t))
               = [engine |-> Engine, value |-> "false"]
====
